---- MODULE Spec2Model ----
(***************************************************************************)
(* nomoji: strip emoji code points from text files or standard input.      *)
(*                                                                         *)
(* A text is a sequence of code points (Rust `char` values, as integers).  *)
(* A path is a sequence of name components: <<"a">> is `a` and             *)
(* <<"a", "bak">> is `a.bak`.  An Option is <<>> (None) or <<x>> (Some).   *)
(***************************************************************************)
EXTENDS Integers, Sequences, FiniteSets, TLC

VARIABLES
    pc,          \* position of the program
    code,        \* argument of is_emoji
    verdict,     \* value returned by is_emoji
    input,       \* argument of remove_emojis
    first,       \* remove_emojis(input)
    second,      \* remove_emojis of the text of `first`
    args,        \* the parsed Args
    fs,          \* path -> Option of the text of the file
    fs0,         \* the files as they were when the program started
    stdin,       \* text waiting on standard input
    stdout,      \* text written to standard output so far
    stderr,      \* diagnostic lines written to standard error so far
    idx,         \* 1-based position of the `for file in &args.files` loop
    cleaned,     \* local `cleaned` of process_file / process_stdin
    emoji_count, \* local `emoji_count` / `count`
    results,     \* Vec<ProcessResult> of main
    iolog,       \* the I/O calls made so far, in order, with their outcome
    exit_code    \* Option: process exit status

pureVars == <<code, verdict, input, first, second>>
progVars == <<args, fs, fs0, stdin, stdout, stderr, idx, cleaned, emoji_count,
              results, iolog, exit_code>>
vars == <<pc, code, verdict, input, first, second, args, fs, fs0, stdin, stdout,
          stderr, idx, cleaned, emoji_count, results, iolog, exit_code>>

----------------------------------------------------------------------------
(* Bounds *)

\* longest text handed to remove_emojis
MaxLen == 3
\* longest list of named sources
MaxFiles == 2
\* longest initial file / standard input text
MaxFileLen == 1

\* largest value of a Rust `char`
CharMax == 1114111

\* `char` excludes the surrogates U+D800..U+DFFF
is_char(c) == c \in 0..CharMax /\ ~(c >= \hD800 /\ c <= \hDFFF)

\* code points the filtered texts are built from: C0 controls, a letter,
\* (c), ZWJ, VS16, a regional indicator, a skin tone, an emoticon, and one
\* code point of the gap after the emoticons
Alphabet == {\h0, \h9, \hA, \h41, \hA9, \h200D, \hFE0F, \h1F1E6, \h1F3FB,
             \h1F600, \h1F650}

\* code points the files and standard input are built from
FileAlphabet == {\h41, \h1F600}

TextsUpTo(alphabet, n) == UNION {[1..k -> alphabet] : k \in 0..n}

----------------------------------------------------------------------------
(* Classifier *)

contains(lo, hi, c) == lo <= c /\ c <= hi

\* the emoticons range with its upper end off by one
is_emoji_short_range(c) ==
    \/ contains(\h1F300, \h1F5FF, c)
    \/ contains(\h1F900, \h1F9FF, c)
    \/ contains(\h1F600, \h1F64E, c)
    \/ contains(\h1F680, \h1F6FF, c)
    \/ contains(\h2600, \h26FF, c)
    \/ contains(\h2700, \h27BF, c)
    \/ contains(\h1F100, \h1F2FF, c)
    \/ contains(\h1F780, \h1F7FF, c)
    \/ contains(\h1FA00, \h1FAFF, c)
    \/ c \in {\h20E3, \h200D}
    \/ contains(\hFE00, \hFE0F, c)
    \/ contains(\h231A, \h231B, c) \/ contains(\h23E9, \h23EC, c)
    \/ c \in {\h23F0, \h23F3, \h2B50, \h2B55, \hA9, \hAE, \h2122, \h3030, \h303D}
    \/ contains(\h25FD, \h25FE, c)

\* 0x00A9 mistyped as 0x000A
is_emoji_newline(c) ==
    \/ contains(\h1F300, \h1F5FF, c)
    \/ contains(\h1F900, \h1F9FF, c)
    \/ contains(\h1F600, \h1F64F, c)
    \/ contains(\h1F680, \h1F6FF, c)
    \/ contains(\h2600, \h26FF, c)
    \/ contains(\h2700, \h27BF, c)
    \/ contains(\h1F100, \h1F2FF, c)
    \/ contains(\h1F780, \h1F7FF, c)
    \/ contains(\h1FA00, \h1FAFF, c)
    \/ c \in {\h20E3, \h200D}
    \/ contains(\hFE00, \hFE0F, c)
    \/ contains(\h231A, \h231B, c) \/ contains(\h23E9, \h23EC, c)
    \/ c \in {\h23F0, \h23F3, \h2B50, \h2B55, \hA, \hAE, \h2122, \h3030, \h303D}
    \/ contains(\h25FD, \h25FE, c)

is_emoji(c) ==
    \* Miscellaneous Symbols and Pictographs
    \/ contains(\h1F300, \h1F5FF, c)
    \* Supplemental Symbols and Pictographs
    \/ contains(\h1F900, \h1F9FF, c)
    \* Emoticons
    \/ contains(\h1F600, \h1F64F, c)
    \* Transport and Map Symbols
    \/ contains(\h1F680, \h1F6FF, c)
    \* Miscellaneous Symbols
    \/ contains(\h2600, \h26FF, c)
    \* Dingbats
    \/ contains(\h2700, \h27BF, c)
    \* Enclosed Alphanumeric Supplement
    \/ contains(\h1F100, \h1F1FF, c)
    \* Enclosed Ideographic Supplement
    \/ contains(\h1F200, \h1F2FF, c)
    \* Geometric Shapes Extended
    \/ contains(\h1F780, \h1F7FF, c)
    \* Symbols and Pictographs Extended-A
    \/ contains(\h1FA00, \h1FA6F, c)
    \* Symbols and Pictographs Extended-B
    \/ contains(\h1FA70, \h1FAFF, c)
    \* Flags (regional indicators)
    \/ contains(\h1F1E6, \h1F1FF, c)
    \* Keycap sequences
    \/ c = \h20E3
    \* Zero Width Joiner
    \/ c = \h200D
    \* Variation Selectors
    \/ contains(\hFE00, \hFE0F, c)
    \* Emoji modifier fitzpatrick
    \/ contains(\h1F3FB, \h1F3FF, c)
    \* additional symbols: the matches! list
    \/ contains(\h231A, \h231B, c) \/ contains(\h23E9, \h23EC, c)
    \/ c = \h23F0 \/ c = \h23F3
    \/ contains(\h25FD, \h25FE, c) \/ contains(\h2614, \h2615, c)
    \/ contains(\h2648, \h2653, c) \/ c = \h267F
    \/ c = \h2693 \/ c = \h26A1 \/ contains(\h26AA, \h26AB, c)
    \/ contains(\h26BD, \h26BE, c) \/ contains(\h26C4, \h26C5, c)
    \/ c = \h26CE \/ c = \h26D4 \/ c = \h26EA
    \/ contains(\h26F2, \h26F3, c) \/ c = \h26F5 \/ c = \h26FA
    \/ c = \h26FD \/ c = \h2705 \/ c = \h2728 \/ c = \h274C \/ c = \h274E
    \/ contains(\h2753, \h2755, c)
    \/ contains(\h2795, \h2797, c) \/ c = \h27B0 \/ c = \h27BF
    \/ c = \h2B50 \/ c = \h2B55 \/ c = \hA9 \/ c = \hAE
    \/ c = \h2122 \/ c = \h3030 \/ c = \h303D

----------------------------------------------------------------------------
(* Filter *)

RECURSIVE remove_emojis_loop(_, _, _, _)
\* the `for c in input.chars()` loop, at position i
remove_emojis_loop(text, i, result, count) ==
    IF i > Len(text) THEN <<result, count>>
    ELSE IF is_emoji(text[i])
         THEN remove_emojis_loop(text, i + 1, result, count + 1)
         ELSE remove_emojis_loop(text, i + 1, Append(result, text[i]), count)

RECURSIVE skip_after_removal_loop(_, _, _, _)
\* a removal also steps over the following code point without looking at it
skip_after_removal_loop(text, i, result, count) ==
    IF i > Len(text) THEN <<result, count>>
    ELSE IF is_emoji(text[i])
         THEN IF i + 1 <= Len(text)
              THEN skip_after_removal_loop(text, i + 2,
                                           Append(result, text[i + 1]), count + 1)
              ELSE <<result, count + 1>>
         ELSE skip_after_removal_loop(text, i + 1, Append(result, text[i]), count)

remove_emojis_skip_after_removal(text) == skip_after_removal_loop(text, 1, <<>>, 0)

RECURSIVE coalescing_loop(_, _, _, _)
\* a run of adjacent emoji code points is counted as one removal
coalescing_loop(text, i, result, count) ==
    IF i > Len(text) THEN <<result, count>>
    ELSE IF is_emoji(text[i])
         THEN coalescing_loop(text, i + 1, result,
                  IF i > 1 /\ is_emoji(text[i - 1]) THEN count ELSE count + 1)
         ELSE coalescing_loop(text, i + 1, Append(result, text[i]), count)

remove_emojis_coalescing(text) == coalescing_loop(text, 1, <<>>, 0)

RECURSIVE dropping_controls_loop(_, _, _, _)
\* control characters other than newline and tab are dropped, uncounted
dropping_controls_loop(text, i, result, count) ==
    IF i > Len(text) THEN <<result, count>>
    ELSE IF is_emoji(text[i])
         THEN dropping_controls_loop(text, i + 1, result, count + 1)
         ELSE IF text[i] < \h20 /\ text[i] # \hA /\ text[i] # \h9
              THEN dropping_controls_loop(text, i + 1, result, count)
              ELSE dropping_controls_loop(text, i + 1, Append(result, text[i]), count)

remove_emojis_dropping_controls(text) == dropping_controls_loop(text, 1, <<>>, 0)

remove_emojis(text) == remove_emojis_loop(text, 1, <<>>, 0)

----------------------------------------------------------------------------
(* The pure functions applied to bounded inputs *)

NoArgs == [files |-> <<>>, backup |-> FALSE, inplace |-> FALSE, dry_run |-> FALSE]

ProgIdle ==
    /\ args = NoArgs
    /\ fs = <<>>
    /\ fs0 = <<>>
    /\ stdin = <<>>
    /\ stdout = <<>>
    /\ stderr = <<>>
    /\ idx = 1
    /\ cleaned = <<>>
    /\ emoji_count = 0
    /\ results = <<>>
    /\ iolog = <<>>
    /\ exit_code = <<>>

PureIdle ==
    /\ code = 0
    /\ verdict = FALSE
    /\ input = <<>>
    /\ first = <<<<>>, 0>>
    /\ second = <<<<>>, 0>>

\* is_emoji applied to every `char`
InitClassify ==
    /\ ProgIdle
    /\ pc = "classify"
    /\ code \in 0..CharMax
    /\ is_char(code)
    /\ verdict = FALSE
    /\ input = <<>>
    /\ first = <<<<>>, 0>>
    /\ second = <<<<>>, 0>>

Classify ==
    /\ pc = "classify"
    /\ verdict' = is_emoji(code)
    /\ pc' = "classified"
    /\ UNCHANGED <<code, input, first, second>>
    /\ UNCHANGED progVars

SpecClassify == InitClassify /\ [][Classify]_vars

C0Controls == 0..31

\* remove_emojis applied to every text over Alphabet up to MaxLen, and to
\* every C0 control character on its own
InitFilter ==
    /\ ProgIdle
    /\ pc = "filter"
    /\ code = 0
    /\ verdict = FALSE
    /\ input \in TextsUpTo(Alphabet, MaxLen) \cup {<<c>> : c \in C0Controls}
    /\ first = <<<<>>, 0>>
    /\ second = <<<<>>, 0>>

Filter ==
    /\ pc = "filter"
    /\ first' = remove_emojis(input)
    /\ pc' = "filtered"
    /\ UNCHANGED <<code, verdict, input, second>>
    /\ UNCHANGED progVars

\* the filter applied to its own output
Refilter ==
    /\ pc = "filtered"
    /\ second' = remove_emojis(first[1])
    /\ pc' = "refiltered"
    /\ UNCHANGED <<code, verdict, input, first>>
    /\ UNCHANGED progVars

NextFilter == Filter \/ Refilter

SpecFilter == InitFilter /\ [][NextFilter]_vars

----------------------------------------------------------------------------
(* Properties of the classifier and the filter *)

Filtered == pc \in {"filtered", "refiltered"}

NotEmoji(c) == ~is_emoji(c)

EmojiPositions(text) == {i \in DOMAIN text : is_emoji(text[i])}

\* C1: remove_emojis returns the input with exactly the code points that
\* is_emoji accepts deleted, the others kept in order, and the number of
\* deleted code points; every code point is decided on its own.
C1_RemovalContract ==
    Filtered =>
        /\ first[1] = SelectSeq(input, NotEmoji)
        /\ first[2] = Cardinality(EmojiPositions(input))

\* a regional indicator and a joiner around a letter: two removals, one survivor
C1_Witness ==
    /\ pc = "filtered"
    /\ input = <<\h1F1E6, \h41, \h200D>>
    /\ first = <<<<\h41>>, 2>>

\* the table of spec section 4.1, as inclusive <<lower, upper>> pairs
DesignatedRanges ==
    {<<\h1F300, \h1F5FF>>, <<\h1F900, \h1F9FF>>, <<\h1F600, \h1F64F>>,
     <<\h1F680, \h1F6FF>>, <<\h2600, \h26FF>>, <<\h2700, \h27BF>>,
     <<\h1F100, \h1F1FF>>, <<\h1F200, \h1F2FF>>, <<\h1F780, \h1F7FF>>,
     <<\h1FA00, \h1FA6F>>, <<\h1FA70, \h1FAFF>>, <<\h1F1E6, \h1F1FF>>,
     <<\h20E3, \h20E3>>, <<\h200D, \h200D>>, <<\hFE00, \hFE0F>>,
     <<\h1F3FB, \h1F3FF>>,
     <<\h231A, \h231B>>, <<\h23E9, \h23EC>>, <<\h23F0, \h23F0>>,
     <<\h23F3, \h23F3>>, <<\h25FD, \h25FE>>, <<\h2614, \h2615>>,
     <<\h2648, \h2653>>, <<\h267F, \h267F>>, <<\h2693, \h2693>>,
     <<\h26A1, \h26A1>>, <<\h26AA, \h26AB>>, <<\h26BD, \h26BE>>,
     <<\h26C4, \h26C5>>, <<\h26CE, \h26CE>>, <<\h26D4, \h26D4>>,
     <<\h26EA, \h26EA>>, <<\h26F2, \h26F3>>, <<\h26F5, \h26F5>>,
     <<\h26FA, \h26FA>>, <<\h26FD, \h26FD>>, <<\h2705, \h2705>>,
     <<\h2728, \h2728>>, <<\h274C, \h274C>>, <<\h274E, \h274E>>,
     <<\h2753, \h2755>>, <<\h2795, \h2797>>, <<\h27B0, \h27B0>>,
     <<\h27BF, \h27BF>>, <<\h2B50, \h2B50>>, <<\h2B55, \h2B55>>,
     <<\hA9, \hA9>>, <<\hAE, \hAE>>, <<\h2122, \h2122>>,
     <<\h3030, \h3030>>, <<\h303D, \h303D>>}

Designated(c) == \E r \in DesignatedRanges : r[1] <= c /\ c <= r[2]

\* the gaps the claim names, and the ASCII letters and digits
NamedNonEmoji(c) ==
    \/ c >= \h1F650 /\ c <= \h1F67F
    \/ c >= \h1F700 /\ c <= \h1F77F
    \/ c >= \h30 /\ c <= \h39
    \/ c >= \h41 /\ c <= \h5A
    \/ c >= \h61 /\ c <= \h7A

\* C2: is_emoji is total over the code points and true exactly on the
\* designated ranges and points of spec section 4.1; it is false everywhere
\* else, in particular in the gaps between the ranges and on ASCII letters
\* and digits.
C2_ClassifierTable ==
    pc = "classified" =>
        /\ verdict \in BOOLEAN
        /\ verdict <=> Designated(code)
        /\ NamedNonEmoji(code) => ~verdict

\* the last emoticon is accepted
C2_Witness == pc = "classified" /\ code = \h1F64F /\ verdict

\* C3: length of the output plus the removal count is the length of the
\* input, for every input, the empty one and the all-emoji ones included.
C3_LengthLaw == Filtered => Len(first[1]) + first[2] = Len(input)

\* a text of three emoji code points: empty output, count three
C3_Witness ==
    /\ pc = "filtered"
    /\ Len(input) = 3
    /\ first = <<<<>>, 3>>

\* C4: filtering filtered text returns the same text and a count of zero.
C4_Idempotence == pc = "refiltered" => second = <<first[1], 0>>

\* a text that lost something in the first pass and kept something
C4_Witness ==
    /\ pc = "refiltered"
    /\ first[2] > 0
    /\ first[1] # <<>>
    /\ second[1] = first[1]

RemovedBefore(text, i) == Cardinality({j \in 1..(i - 1) : is_emoji(text[j])})

ControlPositions(text) == {i \in DOMAIN text : text[i] \in C0Controls}

\* C5: no C0 control character (newline and tab among them) is classified
\* as emoji; each one of the input is in the output, at its place among the
\* surviving characters, and is not counted as removed.
C5_ControlsSurvive ==
    Filtered =>
        /\ \A i \in ControlPositions(input) :
              /\ ~is_emoji(input[i])
              /\ i - RemovedBefore(input, i) \in DOMAIN first[1]
              /\ first[1][i - RemovedBefore(input, i)] = input[i]
        /\ first[2] <= Len(input) - Cardinality(ControlPositions(input))

\* a newline between an emoticon and a letter keeps its place
C5_Witness ==
    /\ pc = "filtered"
    /\ input = <<\h1F600, \hA, \h41>>
    /\ first = <<<<\hA, \h41>>, 1>>

----------------------------------------------------------------------------
(* The program: files, standard streams and main *)

None == <<>>
Some(x) == <<x>>

\* format!("{}.bak", file)
backup_path(file) == Append(file, "bak")

\* names a source may be given on the command line
SourceNames == {<<"a">>, <<"a", "bak">>, <<"-">>}

Paths == SourceNames \cup {backup_path(p) : p \in SourceNames}

Flags == [backup : BOOLEAN, inplace : BOOLEAN, dry_run : BOOLEAN]

FileLists == UNION {[1..k -> SourceNames] : k \in 0..MaxFiles}

FileTexts == TextsUpTo(FileAlphabet, MaxFileLen)

\* a file system entry: None (no such file) or Some(text)
Entries == {None} \cup {Some(t) : t \in FileTexts}

\* file systems the program starts in: `a` is free, `a.bak` and `-` are
\* absent or one-emoji files, no other backup exists yet
InitialFs ==
    {f \in [Paths -> Entries] :
        /\ f[<<"a", "bak">>] \in {None, Some(<<\h1F600>>)}
        /\ f[<<"-">>] \in {None, Some(<<\h1F600>>)}
        /\ \A p \in Paths \ SourceNames : f[p] = None}

StrictPrefixes(t) == {SubSeq(t, 1, k) : k \in 0..(Len(t) - 1)}

\* the struct ProcessResult
ProcessResult(file, found, ok, err) ==
    [file |-> file, emojis_found |-> found, success |-> ok, error |-> err]

IoCall(op, path, ok) == [op |-> op, path |-> path, ok |-> ok]

\* `args.files.is_empty() || (args.files.len() == 1 && args.files[0] == "-")`
stdin_mode(a) == a.files = <<>> \/ (Len(a.files) = 1 /\ a.files[1] = <<"-">>)

\* #[command(arg_required_else_help = true)]: an empty command line
no_arguments(a) == a.files = <<>> /\ ~a.backup /\ ~a.inplace /\ ~a.dry_run

file == args.files[idx]

\* the backup flag is looked at before dry_run
Destination_backup_before_dry_run(a) ==
    IF a.backup THEN "backup"
    ELSE IF a.dry_run THEN "report_only"
    ELSE IF a.inplace THEN "write_file"
    ELSE "write_stdout"

\* the inplace flag is looked at before backup
Destination_inplace_before_backup(a) ==
    IF a.dry_run THEN "report_only"
    ELSE IF a.inplace THEN "write_file"
    ELSE IF a.backup THEN "backup"
    ELSE "write_stdout"

\* where process_file goes after a successful read and filter
Destination(a) ==
    IF a.dry_run THEN "report_only"
    ELSE IF a.backup THEN "backup"
    ELSE IF a.inplace THEN "write_file"
    ELSE "write_stdout"

\* the loop is left at the first failed source
Push_stop_at_failure(r) ==
    /\ results' = Append(results, r)
    /\ idx' = IF r.success THEN idx + 1 ELSE Len(args.files) + 1
    /\ cleaned' = <<>>
    /\ emoji_count' = 0
    /\ pc' = "process_file"

\* end of one process_file call: main pushes the result, the loop advances
Push(r) ==
    /\ results' = Append(results, r)
    /\ idx' = idx + 1
    /\ cleaned' = <<>>
    /\ emoji_count' = 0
    /\ pc' = "process_file"

Init ==
    /\ PureIdle
    /\ pc = "main"
    /\ args \in {[files |-> l, backup |-> f.backup, inplace |-> f.inplace,
                  dry_run |-> f.dry_run] : l \in FileLists, f \in Flags}
    /\ fs \in InitialFs
    /\ fs0 = fs
    /\ stdin \in FileTexts
    /\ stdin_mode(args) => fs = [p \in Paths |-> IF p = <<"a">> THEN Some(<<\h1F600>>) ELSE None]
    /\ ~stdin_mode(args) => stdin = <<>>
    /\ stdout = <<>>
    /\ stderr = <<>>
    /\ idx = 1
    /\ cleaned = <<>>
    /\ emoji_count = 0
    /\ results = <<>>
    /\ iolog = <<>>
    /\ exit_code = None

\* Args::parse() and the mode test of main
Main ==
    /\ pc = "main"
    /\ IF no_arguments(args)
       THEN \* clap prints the help text and exits
            /\ pc' = "done"
            /\ stderr' = Append(stderr, <<"help">>)
            /\ exit_code' = Some(2)
       ELSE /\ pc' = IF stdin_mode(args) THEN "process_stdin" ELSE "process_file"
            /\ UNCHANGED <<stderr, exit_code>>
    /\ UNCHANGED <<args, fs0, fs, stdin, stdout, idx, cleaned, emoji_count, results, iolog>>
    /\ UNCHANGED pureVars

\* process_file: read_input(file) fails
ReadFails ==
    /\ pc = "process_file"
    /\ idx <= Len(args.files)
    /\ iolog' = Append(iolog, IoCall("read", file, FALSE))
    /\ Push(ProcessResult(file, 0, FALSE, Some("Failed to read file")))
    /\ UNCHANGED <<args, fs0, fs, stdin, stdout, stderr, exit_code>>
    /\ UNCHANGED pureVars

\* process_file: read_input(file) succeeds, the content is filtered, and in
\* a dry run the result is returned at once
ReadFilters ==
    /\ pc = "process_file"
    /\ idx <= Len(args.files)
    /\ fs[file] # None
    /\ iolog' = Append(iolog, IoCall("read", file, TRUE))
    /\ LET r == remove_emojis(fs[file][1])
       IN  IF Destination(args) = "report_only"
           THEN Push(ProcessResult(file, r[2], TRUE, None))
           ELSE /\ cleaned' = r[1]
                /\ emoji_count' = r[2]
                /\ pc' = Destination(args)
                /\ UNCHANGED <<results, idx>>
    /\ UNCHANGED <<args, fs0, fs, stdin, stdout, stderr, exit_code>>
    /\ UNCHANGED pureVars

\* the backup is taken of the filtered text instead of the file
BackupCopies_of_cleaned ==
    /\ pc = "backup"
    /\ fs' = [fs EXCEPT ![backup_path(file)] = Some(cleaned)]
    /\ iolog' = Append(iolog, IoCall("copy", file, TRUE))
    /\ pc' = "write_file"
    /\ UNCHANGED <<args, fs0, stdin, stdout, stderr, idx, cleaned, emoji_count, results, exit_code>>
    /\ UNCHANGED pureVars

\* fs::copy(file, &backup_path) succeeds
BackupCopies ==
    /\ pc = "backup"
    /\ fs' = [fs EXCEPT ![backup_path(file)] = fs[file]]
    /\ iolog' = Append(iolog, IoCall("copy", file, TRUE))
    /\ pc' = "write_file"
    /\ UNCHANGED <<args, fs0, stdin, stdout, stderr, idx, cleaned, emoji_count, results, exit_code>>
    /\ UNCHANGED pureVars

\* the failed copy is reported, and the source is overwritten all the same
BackupFails_then_writes ==
    /\ pc = "backup"
    /\ fs' = [fs EXCEPT ![file] = Some(cleaned)]
    /\ iolog' = Append(iolog, IoCall("copy", file, FALSE))
    /\ Push(ProcessResult(file, emoji_count, FALSE, Some("Failed to create backup")))
    /\ UNCHANGED <<args, fs0, stdin, stdout, stderr, exit_code>>
    /\ UNCHANGED pureVars

\* fs::copy fails: the backup is untouched or holds part of the source
BackupFails ==
    /\ pc = "backup"
    /\ \E left \in {fs[backup_path(file)]} \cup {Some(t) : t \in StrictPrefixes(fs[file][1])} :
           fs' = [fs EXCEPT ![backup_path(file)] = left]
    /\ iolog' = Append(iolog, IoCall("copy", file, FALSE))
    /\ Push(ProcessResult(file, emoji_count, FALSE, Some("Failed to create backup")))
    /\ UNCHANGED <<args, fs0, stdin, stdout, stderr, exit_code>>
    /\ UNCHANGED pureVars

\* write_output(file, &cleaned) succeeds
WriteFile ==
    /\ pc = "write_file"
    /\ fs' = [fs EXCEPT ![file] = Some(cleaned)]
    /\ iolog' = Append(iolog, IoCall("write", file, TRUE))
    /\ Push(ProcessResult(file, emoji_count, TRUE, None))
    /\ UNCHANGED <<args, fs0, stdin, stdout, stderr, exit_code>>
    /\ UNCHANGED pureVars

\* write_output fails: the file is untouched or truncated to part of `cleaned`
WriteFileFails ==
    /\ pc = "write_file"
    /\ \E left \in {fs[file]} \cup {Some(t) : t \in StrictPrefixes(cleaned)} :
           fs' = [fs EXCEPT ![file] = left]
    /\ iolog' = Append(iolog, IoCall("write", file, FALSE))
    /\ Push(ProcessResult(file, emoji_count, FALSE, Some("Failed to write file")))
    /\ UNCHANGED <<args, fs0, stdin, stdout, stderr, exit_code>>
    /\ UNCHANGED pureVars

\* io::stdout().write_all(cleaned.as_bytes()) succeeds
WriteStdout ==
    /\ pc = "write_stdout"
    /\ stdout' = stdout \o cleaned
    /\ iolog' = Append(iolog, IoCall("stdout", file, TRUE))
    /\ Push(ProcessResult(file, emoji_count, TRUE, None))
    /\ UNCHANGED <<args, fs0, fs, stdin, stderr, exit_code>>
    /\ UNCHANGED pureVars

\* the write to standard output fails after part of `cleaned`, or nothing
WriteStdoutFails ==
    /\ pc = "write_stdout"
    /\ \E part \in {<<>>} \cup StrictPrefixes(cleaned) : stdout' = stdout \o part
    /\ iolog' = Append(iolog, IoCall("stdout", file, FALSE))
    /\ Push(ProcessResult(file, emoji_count, FALSE, Some("Failed to write to stdout")))
    /\ UNCHANGED <<args, fs0, fs, stdin, stderr, exit_code>>
    /\ UNCHANGED pureVars

RECURSIVE sum_emojis(_)
sum_emojis(rs) == IF rs = <<>> THEN 0 ELSE rs[1].emojis_found + sum_emojis(Tail(rs))

failures(rs) == Cardinality({i \in 1..Len(rs) : ~rs[i].success})

\* what print_report writes to standard error
report(rs) ==
    [files_processed |-> Len(rs),
     successful |-> Len(rs) - failures(rs),
     failed |-> IF failures(rs) # 0 THEN Some(failures(rs)) ELSE None,
     total_emojis |-> sum_emojis(rs),
     per_file |-> [i \in 1..Len(rs) |->
                     <<rs[i].file, rs[i].emojis_found, rs[i].error>>]]

\* after the loop: print_report(&results)
PrintReport ==
    /\ pc = "process_file"
    /\ idx > Len(args.files)
    /\ stderr' = Append(stderr, <<"report", report(results)>>)
    /\ pc' = "exit"
    /\ UNCHANGED <<args, fs0, fs, stdin, stdout, idx, cleaned, emoji_count, results,
                   iolog, exit_code>>
    /\ UNCHANGED pureVars

\* the failures are not looked at: main always returns normally
Exit_ignores_failures ==
    /\ pc = "exit"
    /\ exit_code' = Some(0)
    /\ pc' = "done"
    /\ UNCHANGED <<args, fs0, fs, stdin, stdout, stderr, idx, cleaned, emoji_count,
                   results, iolog>>
    /\ UNCHANGED pureVars

\* the end of main: exit(1) if any file failed, else a normal return
Exit ==
    /\ pc = "exit"
    /\ exit_code' = IF failures(results) > 0 THEN Some(1) ELSE Some(0)
    /\ pc' = "done"
    /\ UNCHANGED <<args, fs0, fs, stdin, stdout, stderr, idx, cleaned, emoji_count,
                   results, iolog>>
    /\ UNCHANGED pureVars

\* process_stdin: read_to_string fails; main reports and exits with 1
StdinReadFails ==
    /\ pc = "process_stdin"
    /\ iolog' = Append(iolog, IoCall("read_stdin", None, FALSE))
    /\ stderr' = Append(stderr, <<"Error reading from stdin">>)
    /\ exit_code' = Some(1)
    /\ pc' = "done"
    /\ UNCHANGED <<args, fs0, fs, stdin, stdout, idx, cleaned, emoji_count, results>>
    /\ UNCHANGED pureVars

\* process_stdin: the whole of standard input is read and filtered
StdinReadFilters ==
    /\ pc = "process_stdin"
    /\ iolog' = Append(iolog, IoCall("read_stdin", None, TRUE))
    /\ cleaned' = remove_emojis(stdin)[1]
    /\ emoji_count' = remove_emojis(stdin)[2]
    /\ pc' = "stdin_write"
    /\ UNCHANGED <<args, fs0, fs, stdin, stdout, stderr, idx, results, exit_code>>
    /\ UNCHANGED pureVars

\* process_stdin: write_all succeeds; main prints the count and returns
StdinWrite ==
    /\ pc = "stdin_write"
    /\ stdout' = stdout \o cleaned
    /\ iolog' = Append(iolog, IoCall("stdout", None, TRUE))
    /\ stderr' = Append(stderr, <<"Emojis removed from stdin", emoji_count>>)
    /\ exit_code' = Some(0)
    /\ pc' = "done"
    /\ UNCHANGED <<args, fs0, fs, stdin, idx, cleaned, emoji_count, results>>
    /\ UNCHANGED pureVars

\* process_stdin: write_all fails; main takes the Err arm and exits with 1
StdinWriteFails ==
    /\ pc = "stdin_write"
    /\ \E part \in {<<>>} \cup StrictPrefixes(cleaned) : stdout' = stdout \o part
    /\ iolog' = Append(iolog, IoCall("stdout", None, FALSE))
    /\ stderr' = Append(stderr, <<"Error reading from stdin">>)
    /\ exit_code' = Some(1)
    /\ pc' = "done"
    /\ UNCHANGED <<args, fs0, fs, stdin, idx, cleaned, emoji_count, results>>
    /\ UNCHANGED pureVars

Next ==
    \/ Main
    \/ ReadFails
    \/ ReadFilters
    \/ BackupCopies
    \/ BackupFails
    \/ WriteFile
    \/ WriteFileFails
    \/ WriteStdout
    \/ WriteStdoutFails
    \/ PrintReport
    \/ Exit
    \/ StdinReadFails
    \/ StdinReadFilters
    \/ StdinWrite
    \/ StdinWriteFails

Spec == Init /\ [][Next]_vars

----------------------------------------------------------------------------
(* Properties of process_file and main *)

FileMode == ~no_arguments(args) /\ ~stdin_mode(args)

InCall == idx <= Len(args.files)

LastIo == iolog[Len(iolog)]

\* the filtered form and the emoji count of the text of path p, from the classifier
FilteredText(p) == SelectSeq(fs[p][1], NotEmoji)
EmojiCount(p) == Cardinality(EmojiPositions(fs[p][1]))

\* the step is the successful read that opens a process_file call
ReadSucceeds == pc = "process_file" /\ InCall /\ iolog' # iolog /\ LastIo'.ok

\* C6: in a dry run process_file leaves every file as it was (the source,
\* and its .bak, which is neither created nor modified), writes nothing to
\* standard output, and on a readable source returns success with no error
\* and the number of emoji code points of the source, whatever the backup
\* and inplace flags are.
C6_DryRunFile ==
    [][(FileMode /\ args.dry_run) =>
          /\ fs' = fs
          /\ stdout' = stdout
          /\ ReadSucceeds =>
                results' = Append(results,
                    ProcessResult(file, EmojiCount(file), TRUE, None))]_vars

\* a dry run with both other flags set has counted the emoji of a file that
\* still holds it
C6_Witness ==
    /\ args.dry_run /\ args.backup /\ args.inplace
    /\ Len(results) = 1
    /\ results[1] = ProcessResult(<<"a">>, 1, TRUE, None)
    /\ fs[<<"a">>] = Some(<<\h1F600>>)
    /\ fs[<<"a", "bak">>] = None
    /\ stdout = <<>>

\* C7: with --dry-run nothing is written: no file, and no filtered text to
\* standard output, in file mode and in standard-input mode alike.
C7_DryRunNeverWrites ==
    args.dry_run =>
        /\ stdout = <<>>
        /\ \A i \in DOMAIN iolog : iolog[i].op \notin {"copy", "write"}

OthersUnchanged(p) == \A q \in Paths \ {p} : fs'[q] = fs[q]

\* where the flags send the filtered text
Selected ==
    IF args.backup THEN "backup" ELSE IF args.inplace THEN "write_file" ELSE "write_stdout"

\* C8 as stated: without dry_run, on a readable source, the filtered text
\* goes to standard output (no flag), or replaces the source (inplace), or
\* replaces the source after the backup copy (backup); in each case the
\* other destinations are untouched.
C8_Original ==
    [][(FileMode /\ ~args.dry_run) =>
          /\ ReadSucceeds => pc' = Selected /\ fs' = fs /\ stdout' = stdout
          /\ pc = "write_stdout" => stdout' = stdout \o FilteredText(file) /\ fs' = fs
          /\ pc = "write_file" =>
                /\ fs' = [fs EXCEPT ![file] = Some(FilteredText(file))]
                /\ stdout' = stdout
          /\ pc = "backup" =>
                /\ fs' = [fs EXCEPT ![backup_path(file)] = fs[file]]
                /\ stdout' = stdout
                /\ pc' = "write_file"]_vars

\* C8, amended: the destination is selected as stated, and it receives the
\* filtered text when the copy and the write succeed; a failed copy or
\* write touches nothing but its own destination.
C8_Destination ==
    [][(FileMode /\ ~args.dry_run) =>
          /\ ReadSucceeds => pc' = Selected /\ fs' = fs /\ stdout' = stdout
          /\ pc = "write_stdout" =>
                /\ ~args.backup /\ ~args.inplace
                /\ fs' = fs
                /\ LastIo'.ok => stdout' = stdout \o FilteredText(file)
          /\ pc = "write_file" =>
                /\ args.backup \/ args.inplace
                /\ stdout' = stdout
                /\ OthersUnchanged(file)
                /\ LastIo'.ok => fs'[file] = Some(FilteredText(file))
          /\ pc = "backup" =>
                /\ args.backup
                /\ stdout' = stdout
                /\ OthersUnchanged(backup_path(file))
                /\ LastIo'.ok =>
                      /\ fs'[backup_path(file)] = fs[file]
                      /\ pc' = "write_file"]_vars

\* an inplace run replaced the source by its filtered text: no backup, no output
C8_Witness ==
    /\ args.inplace /\ ~args.backup /\ ~args.dry_run
    /\ args.files = <<<<"a">>>>
    /\ results = <<ProcessResult(<<"a">>, 1, TRUE, None)>>
    /\ fs[<<"a">>] = Some(<<>>)
    /\ fs[<<"a", "bak">>] = None
    /\ stdout = <<>>

\* C9: with backup set and no dry run, the source is written only after
\* its copy to <source>.bak succeeded; when the copy fails the source is
\* not written, nothing goes to standard output, and the result is a
\* failure with the backup error and the count of the content read.
C9_BackupFirst ==
    [][(FileMode /\ args.backup /\ ~args.dry_run) =>
          /\ \A p \in Paths : fs'[p] # fs[p] =>
                \/ pc = "backup" /\ p = backup_path(file)
                \/ /\ pc = "write_file" /\ p = file
                   /\ LastIo = IoCall("copy", file, TRUE)
                   /\ fs[backup_path(file)] = fs[file]
          /\ stdout' = stdout
          /\ (pc = "backup" /\ ~LastIo'.ok) =>
                /\ fs'[file] = fs[file]
                /\ results' = Append(results,
                       ProcessResult(file, EmojiCount(file), FALSE,
                                     Some("Failed to create backup")))
                /\ idx' = idx + 1
                /\ pc' = "process_file"]_vars

\* a failed copy: the source still holds its emoji, the failure is recorded
C9_Witness ==
    /\ args.backup /\ ~args.dry_run
    /\ args.files = <<<<"a">>>>
    /\ results = <<ProcessResult(<<"a">>, 1, FALSE, Some("Failed to create backup"))>>
    /\ fs[<<"a">>] = Some(<<\h1F600>>)
    /\ stdout = <<>>

\* the source (1-based) whose process_file call made the j-th I/O call
CallOf(j) == Cardinality({i \in 1..j : iolog[i].op = "read"})

CallsOf(k) == {j \in DOMAIN iolog : CallOf(j) = k}

ErrorOf(op) ==
    CASE op = "read" -> Some("Failed to read file")
      [] op = "copy" -> Some("Failed to create backup")
      [] op = "write" -> Some("Failed to write file")
      [] op = "stdout" -> Some("Failed to write to stdout")

\* C10: in file mode every named source is processed once, in the order
\* given, and the result list gets one entry per source in that order; a
\* failed read, copy or write of source i is recorded in entry i alone, as
\* success = false with its error (and a count of 0 and no write when the
\* read failed), and the sources after i are processed all the same.
C10_EverySourceInOrder ==
    FileMode =>
        /\ idx = Len(results) + 1
        /\ Len(results) <= Len(args.files)
        /\ pc = "done" => Len(results) = Len(args.files)
        /\ pc # "done" => ENABLED Next
        /\ \A j \in DOMAIN iolog :
              /\ CallOf(j) \in 1..Len(args.files)
              /\ iolog[j].path = args.files[CallOf(j)]
              /\ j > 1 /\ ~iolog[j - 1].ok => iolog[j].op = "read"
        /\ \A k \in 1..Len(results) :
              /\ results[k].file = args.files[k]
              /\ CallsOf(k) # {}
              /\ results[k].success <=> \A j \in CallsOf(k) : iolog[j].ok
              /\ results[k].success <=> results[k].error = None
              /\ \A j \in CallsOf(k) :
                    ~iolog[j].ok =>
                        /\ results[k].error = ErrorOf(iolog[j].op)
                        /\ iolog[j].op = "read" =>
                              results[k].emojis_found = 0 /\ CallsOf(k) = {j}

\* the first source failed, the second was still filtered
C10_Witness ==
    /\ pc = "done"
    /\ Len(results) = 2
    /\ ~results[1].success
    /\ results[2] = ProcessResult(<<"a">>, 1, TRUE, None)
    /\ iolog[Len(iolog)] = IoCall("write", <<"a">>, TRUE)

AllSucceeded == \A k \in 1..Len(results) : results[k].success

\* C11: in file mode the exit status is 0 exactly when every source's
\* result is a success and 1 when some source failed, and the report is on
\* standard error before the status is set; in standard-input mode it is 1
\* when the read of standard input failed and 0 when the read and the write
\* of the filtered text both succeeded.
C11_ExitCode ==
    [][exit_code' # exit_code =>
          /\ exit_code = None
          /\ FileMode =>
                /\ Len(results) = Len(args.files)
                /\ exit_code' = Some(0) <=> AllSucceeded
                /\ ~AllSucceeded => exit_code' = Some(1)
                /\ stderr = <<<<"report", report(results)>>>>
                /\ stderr' = stderr
          /\ stdin_mode(args) /\ ~no_arguments(args) =>
                /\ iolog' = <<IoCall("read_stdin", None, FALSE)>> =>
                      exit_code' = Some(1)
                /\ iolog' = <<IoCall("read_stdin", None, TRUE),
                              IoCall("stdout", None, TRUE)>> =>
                      exit_code' = Some(0)
                /\ iolog'[1].op = "read_stdin"
                /\ Len(iolog') = 1 => ~iolog'[1].ok]_vars

\* two sources, the second failed: the report is out and the status is 1
C11_Witness ==
    /\ pc = "done"
    /\ Len(results) = 2
    /\ results[1].success /\ ~results[2].success
    /\ stderr = <<<<"report", report(results)>>>>
    /\ stderr[1][2].failed = Some(1)
    /\ exit_code = Some(1)

ReadsOfStdin == {j \in DOMAIN iolog : iolog[j].op = "read_stdin"}

\* process_stdin is running, or has run
StdinPath == pc \in {"process_stdin", "stdin_write"} \/ ReadsOfStdin # {}

\* C12: main takes the standard-input path exactly when the source list is
\* empty or is the single entry `-`.  On that path no file is read, copied
\* or written and there is no result list; standard input is read whole
\* before the one write, and when both succeed standard output holds the
\* filtered text and one count is reported.  In every other case each entry,
\* `-` included, is read as a file by process_file, and standard input is
\* never read.
C12_ModeDispatch ==
    pc # "main" =>
        /\ stdin_mode(args) <=> StdinPath
        /\ stdin_mode(args) =>
              /\ results = <<>>
              /\ \A j \in DOMAIN iolog :
                    /\ iolog[j].op \in {"read_stdin", "stdout"}
                    /\ iolog[j].op = "stdout" =>
                          j = 2 /\ iolog[1] = IoCall("read_stdin", None, TRUE)
              /\ (pc = "done" /\ Len(iolog) = 2 /\ iolog[2].ok) =>
                    /\ stdout = SelectSeq(stdin, NotEmoji)
                    /\ stderr = <<<<"Emojis removed from stdin",
                                    Cardinality(EmojiPositions(stdin))>>>>
        /\ ~stdin_mode(args) =>
              /\ ReadsOfStdin = {}
              /\ \A j \in DOMAIN iolog :
                    /\ CallOf(j) \in 1..Len(args.files)
                    /\ iolog[j].path = args.files[CallOf(j)]
              /\ pc \in {"exit", "done"} =>
                    /\ Len(results) = Len(args.files)
                    /\ \A k \in 1..Len(args.files) :
                          \E j \in DOMAIN iolog :
                              /\ CallOf(j) = k
                              /\ iolog[j].op = "read"
                              /\ iolog[j].path = args.files[k]

AllCallsOk == \A j \in DOMAIN iolog : iolog[j].ok

BackupRunDone == pc = "done" /\ FileMode /\ args.backup /\ ~args.dry_run /\ AllCallsOk

\* f.bak holds what f held at the start, f holds its filtered form
BackedUp(f) ==
    /\ fs0[f] # None
    /\ fs[backup_path(f)] = fs0[f]
    /\ fs[f] = Some(SelectSeq(fs0[f][1], NotEmoji))

\* no source is named twice, and none is named together with its backup
Independent(l) ==
    \A i, j \in DOMAIN l :
        /\ i # j => l[i] # l[j]
        /\ l[j] # backup_path(l[i])

\* C13 as stated: after a complete backup run without failures, for every
\* named source f, f.bak holds the content f had before the run and f holds
\* its filtered form, for every source list.
C13_Original ==
    BackupRunDone => \A k \in DOMAIN args.files : BackedUp(args.files[k])

\* C13, amended: the same, for the source lists that name no source twice
\* and no source together with its own backup.
C13_BackupHoldsOriginal ==
    (BackupRunDone /\ Independent(args.files)) =>
        \A k \in DOMAIN args.files : BackedUp(args.files[k])

\* two sources with an emoji each: both backups hold it, both sources lost it
C13_Witness ==
    /\ BackupRunDone
    /\ args.files = <<<<"a">>, <<"-">>>>
    /\ fs0[<<"a">>] = Some(<<\h1F600>>)
    /\ fs[<<"a", "bak">>] = Some(<<\h1F600>>)
    /\ fs[<<"a">>] = Some(<<>>)
    /\ fs[<<"-", "bak">>] = Some(<<\h1F600>>)
    /\ fs[<<"-">>] = Some(<<>>)

====
